---- MODULE Spec2Model ----
(***************************************************************************)
(* Payroll run processing of AdeptAIPro/payroll-backend.                   *)
(*                                                                         *)
(* The database tables are the shared state; every HTTP request is a call  *)
(* with its own SQLAlchemy session, and calls interleave at their awaits   *)
(* (db.execute / db.commit).  One action is one stretch of handler code    *)
(* between two awaits that touch the database.                             *)
(*                                                                         *)
(* Units: hours are hundredths of an hour (DECIMAL(5,2)), hourly_rate and  *)
(* every stored money column are cents (DECIMAL(n,2)), tax rates are       *)
(* 1/10000 (DECIMAL(5,4)); an unrounded pay amount inside                  *)
(* _process_employee_payroll is counted in PayUnit-ths of a cent.          *)
(***************************************************************************)
EXTENDS Integers, Sequences, FiniteSets, TLC

VARIABLES
    payroll_runs,        \* table payroll_runs: Seq of rows, id = index
    payslips,            \* table payslips: Seq of rows, id = index
    employees,           \* table employees: [id -> row]
    timesheets,          \* table timesheets: set of rows
    tax_configurations,  \* table tax_configurations: Seq of rows
    clock,               \* datetime.utcnow(), as a counter
    faults,              \* number of database commits that have raised
    creates,             \* calls of POST /api/payroll/            (create_payroll_run)
    calls,               \* calls of POST /api/payroll/{id}/process (process_payroll)
    ts_calls,            \* calls of the handlers of routers/timesheets.py
    tax_calls,           \* calls of POST /api/organizations/{id}/tax-config
    emp_calls,           \* calls of DELETE /api/employees/{id}        (delete_employee)
    taxes                \* one call of TaxService.calculate_taxes: arguments and result

vars == <<payroll_runs, payslips, employees, timesheets, tax_configurations,
          clock, faults, creates, calls, ts_calls, tax_calls, emp_calls, taxes>>

\* the calls that are no part of the payroll run handlers
other_calls == <<ts_calls, tax_calls, emp_calls, taxes>>

\* the variables of the payroll run handlers
payroll_vars == <<payroll_runs, payslips, clock, faults, creates, calls>>

----------------------------------------------------------------------------
(* Bounds *)

MaxCreateCalls == 2
MaxProcessCalls == 2
MaxEmployees == 2
MaxFaults == 1
MaxTimesheetCalls == 2
MaxTaxConfigCalls == 2
MaxEmployeeCalls == 1

(* Program constants *)

HourScale == 100                \* DECIMAL(5,2): hours in hundredths
CentScale == 100                \* DECIMAL(n,2): money in cents
RateScale == 10000              \* DECIMAL(5,4): a rate of 1.0
PayUnit == HourScale * 10       \* unrounded pay: 1/PayUnit of a cent
UnitsPerDollar == CentScale * PayUnit
TaxScale == PayUnit * RateScale \* pay * rate: 1/TaxScale of a cent
SocialSecurityWageBase == 160200     \* Decimal('160200'), dollars
MedicareThreshold == 200000          \* Decimal('200000'), dollars
AdditionalMedicareRate == 90         \* Decimal('0.009') at RateScale
DaysPerYear == 365
OvertimeThreshold == 40          \* weekly hours above which hours are overtime

None == 0 - 1                   \* a NULL column / Python None

Orgs == {1}
PayPeriods == {<<1, 7>>, <<1, 14>>}
CreateIds == 1 .. MaxCreateCalls
CallIds == 1 .. MaxProcessCalls
TimesheetCallIds == 1 .. MaxTimesheetCalls
TaxCallIds == 1 .. MaxTaxConfigCalls
EmployeeCallIds == 1 .. MaxEmployeeCalls
EmployeeIds == 1 .. MaxEmployees

PENDING == "pending"
PROCESSING == "processing"
COMPLETED == "completed"
FAILED == "failed"
PayrollStatus == {PENDING, PROCESSING, COMPLETED, FAILED}

----------------------------------------------------------------------------
(* Decimal arithmetic *)

Abs(x) == IF x < 0 THEN 0 - x ELSE x

\* An exact Decimal of calculate_taxes is the pair <<c, f>> that stands for
\* c + f / TaxScale cents, with 0 <= f < TaxScale; gross_pay is the pair
\* <<dollars, units>> with 0 <= units < UnitsPerDollar pay units.
Money(c, f) == <<c + f \div TaxScale, f % TaxScale>>

\* gross_pay as an exact amount of cents
GrossMoney(gross_pay) ==
    Money(gross_pay[1] * CentScale + gross_pay[2] \div PayUnit,
          (gross_pay[2] % PayUnit) * RateScale)

\* Decimal * Decimal: an amount of dollars and pay units times a rate
Times(gross_pay, rate) ==
    LET hundredths == gross_pay[1] * rate       \* of a cent
        perCent == RateScale \div CentScale
    IN  Money(hundredths \div perCent,
              (hundredths % perCent) * (TaxScale \div perCent) + gross_pay[2] * rate)

Plus(a, b) == Money(a[1] + b[1], a[2] + b[2])

Minus(a, b) == Money(a[1] - b[1], a[2] - b[2])

\* Decimal.quantize(Decimal('0.01')) under the default context: the amount
\* rounded to whole cents, ties to the even neighbour.
Quantize(a) ==
    IF 2 * a[2] < TaxScale THEN a[1]
    ELSE IF 2 * a[2] > TaxScale THEN a[1] + 1
    ELSE IF a[1] % 2 = 0 THEN a[1] ELSE a[1] + 1

\* A value written to a DECIMAL(n,2) column and read back (db.refresh): the
\* database rounds to the column's scale, ties away from zero.
StoreDecimal2(x) ==
    LET a == Abs(x)
        n == (2 * a + PayUnit) \div (2 * PayUnit)
    IN  IF x < 0 THEN 0 - n ELSE n

\* gross_pay > dollars
ExceedsDollars(gross_pay, dollars) ==
    \/ gross_pay[1] > dollars
    \/ gross_pay[1] = dollars /\ gross_pay[2] > 0

\* an int amount of pay units as <<dollars, units>>
Dollars(units) == <<units \div UnitsPerDollar, units % UnitsPerDollar>>

----------------------------------------------------------------------------
(* TaxService.calculate_taxes: gross_pay <<dollars, units>> -> amounts in cents *)

\* min(gross_pay, social_security_wage_base) without the wage base
UncappedWages(gross_pay) == gross_pay

\* min(gross_pay, social_security_wage_base)
CappedWages(gross_pay) ==
    IF ExceedsDollars(gross_pay, SocialSecurityWageBase)
    THEN <<SocialSecurityWageBase, 0>>
    ELSE gross_pay

calculate_taxes(gross_pay, tax_config) ==
    LET federal_tax == Times(gross_pay, tax_config.federal_tax_rate)
        state_tax == Times(gross_pay, tax_config.state_tax_rate)
        social_security == Times(CappedWages(gross_pay), tax_config.social_security_rate)
        medicare ==
            IF ExceedsDollars(gross_pay, MedicareThreshold)
            THEN Plus(Times(gross_pay, tax_config.medicare_rate),
                      Times(<<gross_pay[1] - MedicareThreshold, gross_pay[2]>>,
                            AdditionalMedicareRate))
            ELSE Times(gross_pay, tax_config.medicare_rate)
        total_deductions == Plus(Plus(federal_tax, state_tax), Plus(social_security, medicare))
        net_pay == Minus(GrossMoney(gross_pay), total_deductions)
    IN  [federal_tax |-> Quantize(federal_tax),
         state_tax |-> Quantize(state_tax),
         social_security |-> Quantize(social_security),
         medicare |-> Quantize(medicare),
         total_deductions |-> Quantize(total_deductions),
         net_pay |-> Quantize(net_pay)]

----------------------------------------------------------------------------
(* Tables *)

RECURSIVE SumHours(_, _)
\* sum of the column `col` over a set of timesheet rows
SumHours(rows, col) ==
    IF rows = {} THEN 0
    ELSE LET t == CHOOSE x \in rows : TRUE
         IN  t[col] + SumHours(rows \ {t}, col)

RECURSIVE Ascending(_)
\* the ids of a set in primary-key order, as a select without ORDER BY returns them
Ascending(ids) ==
    IF ids = {} THEN <<>>
    ELSE LET m == CHOOSE x \in ids : \A y \in ids : x <= y
         IN  <<m>> \o Ascending(ids \ {m})

HourlyRate == 3                 \* cents per hour

\* The employee with id e; rate is its hourly_rate column (None when NULL).
EmployeeRow(e, rate, active) ==
    [org_id |-> 1,
     is_active |-> active,
     salary_type |-> IF e % 3 = 0 THEN "fixed" ELSE "hourly",
     base_salary |-> IF e % 3 = 0 THEN DaysPerYear * 10 ELSE 0,
     hourly_rate |-> IF e % 3 = 0 THEN None ELSE rate,
     bank_account_id |-> IF e % 2 = 0 THEN e ELSE None]

\* the seven day-hour columns, monday first, from whole hours
Hours(days) == [d \in 1 .. 7 |-> days[d] * HourScale]

DayHoursTotal(h) == h[1] + h[2] + h[3] + h[4] + h[5] + h[6] + h[7]

\* routers/timesheets.py create_timesheet, lines 74-90: the row it inserts
NewTimesheet(id, employee_id, week, day_hours) ==
    LET total_hours == DayHoursTotal(day_hours)
        overtime_hours == IF total_hours - OvertimeThreshold * HourScale > 0
                          THEN total_hours - OvertimeThreshold * HourScale ELSE 0
    IN  [id |-> id, employee_id |-> employee_id,
         week_start_date |-> week[1], week_end_date |-> week[2],
         day_hours |-> day_hours,
         total_hours |-> total_hours, overtime_hours |-> overtime_hours,
         status |-> "pending"]

\* The timesheets of employee e as create_timesheet and approve_timesheet
\* left them: an approved first week with overtime, and a second week that
\* is approved for the odd employees and still pending for the even ones.
TimesheetRows(e) ==
    {[NewTimesheet(2 * e - 1, e, <<1, 7>>, Hours(<<10, 10, 10, 12, 0, 0, 0>>))
         EXCEPT !.status = "approved"],
     [NewTimesheet(2 * e, e, <<8, 14>>, Hours(<<2, 2, 2, 2, 2, 0, 0>>))
         EXCEPT !.status = IF e % 2 = 1 THEN "approved" ELSE "pending"]}

\* The organization's tax configuration row.
TaxConfigurationRow(org) ==
    [org_id |-> org, federal_tax_rate |-> 2200, state_tax_rate |-> 500,
     social_security_rate |-> 620, medicare_rate |-> 145, unemployment_rate |-> 60,
     is_active |-> TRUE]

\* A PayrollRun row as the model's column defaults make it.
NewPayrollRun(org, period) ==
    [org_id |-> org, pay_period_start |-> period[1], pay_period_end |-> period[2],
     status |-> PENDING, total_gross_pay |-> 0, total_net_pay |-> 0, total_taxes |-> 0,
     processed_at |-> None]

IdleCreate == [pc |-> "idle", org_id |-> None, period |-> <<>>, result |-> "none"]

IdleCall ==
    [pc |-> "idle", payroll_run_id |-> None, payroll_run |-> <<>>, employees |-> <<>>,
     index |-> 1, tax_config |-> <<>>, total_gross_pay |-> 0, total_net_pay |-> 0,
     total_taxes |-> 0, payslip |-> None, error |-> "none", result |-> "none"]

IdleTimesheetCall ==
    [pc |-> "idle", op |-> "none", role |-> "none", caller |-> None, timesheet_id |-> None,
     timesheet |-> <<>>, data |-> <<>>, result |-> "none"]

IdleTaxCall == [pc |-> "idle", org_id |-> None, rates |-> <<>>, result |-> "none"]

IdleEmployeeCall == [pc |-> "idle", employee_id |-> None, result |-> "none"]

IdleTaxes == [gross_pay |-> <<>>, tax_config |-> <<>>, result |-> <<>>]

\* The tables before any call, with each employee's hourly_rate column
\* drawn from hourly_rates.
InitTables(hourly_rates) ==
    /\ payroll_runs = <<>>
    /\ payslips = <<>>
    /\ \E rates \in [EmployeeIds -> hourly_rates], last_active \in BOOLEAN :
          employees = [e \in EmployeeIds |->
                          EmployeeRow(e, rates[e], e < MaxEmployees \/ last_active)]
    /\ timesheets = UNION {TimesheetRows(e) : e \in EmployeeIds}
    /\ \E n \in 0 .. 1 :
          tax_configurations = [i \in 1 .. n |-> TaxConfigurationRow(1)]
    /\ clock = 1
    /\ faults = 0
    /\ creates = [c \in CreateIds |-> IdleCreate]
    /\ calls = [p \in CallIds |-> IdleCall]
    /\ ts_calls = [t \in TimesheetCallIds |-> IdleTimesheetCall]
    /\ tax_calls = [k \in TaxCallIds |-> IdleTaxCall]
    /\ emp_calls = [d \in EmployeeCallIds |-> IdleEmployeeCall]

Init == InitTables({None, HourlyRate}) /\ taxes = IdleTaxes

----------------------------------------------------------------------------
(* routers/payroll.py create_payroll_run: POST /api/payroll/ by an admin *)

\* The duplicate check with pay_period_end compared to the start of the
\* requested period.
ExistingRunsWrongColumn(org, period) ==
    {i \in 1 .. Len(payroll_runs) :
        /\ payroll_runs[i].org_id = org
        /\ payroll_runs[i].pay_period_start = period[1]
        /\ payroll_runs[i].pay_period_end = period[1]}

\* The rows the duplicate check selects.
ExistingRuns(org, period) ==
    {i \in 1 .. Len(payroll_runs) :
        /\ payroll_runs[i].org_id = org
        /\ payroll_runs[i].pay_period_start = period[1]
        /\ payroll_runs[i].pay_period_end = period[2]}

\* select ... scalar_one_or_none(): reject a duplicate, else go on to insert
CreateCheck(c, org, period) ==
    /\ creates[c].pc = "idle"
    /\ LET n == Cardinality(ExistingRuns(org, period))
           next == IF n = 0 THEN [pc |-> "insert", result |-> "none"]
                   ELSE IF n = 1 THEN [pc |-> "done", result |-> "400 duplicate"]
                   ELSE [pc |-> "done", result |-> "500 multiple rows"]
       IN  creates' = [creates EXCEPT ![c] =
                          [pc |-> next.pc, org_id |-> org, period |-> period,
                           result |-> next.result]]
    /\ UNCHANGED <<other_calls, payroll_runs, payslips, employees, timesheets, tax_configurations,
                   clock, faults, calls>>

\* db.add(db_payroll_run); await db.commit()
CreateInsert(c) ==
    /\ creates[c].pc = "insert"
    /\ payroll_runs' = Append(payroll_runs, NewPayrollRun(creates[c].org_id, creates[c].period))
    /\ creates' = [creates EXCEPT ![c].pc = "done", ![c].result = "200 created"]
    /\ UNCHANGED <<other_calls, payslips, employees, timesheets, tax_configurations, clock, faults, calls>>

\* the commit of the insert raises
CreateInsertFails(c) ==
    /\ creates[c].pc = "insert"
    /\ faults < MaxFaults
    /\ faults' = faults + 1
    /\ creates' = [creates EXCEPT ![c].pc = "done", ![c].result = "500 error"]
    /\ UNCHANGED <<other_calls, payroll_runs, payslips, employees, timesheets, tax_configurations,
                   clock, calls>>

----------------------------------------------------------------------------
(* PayrollService._process_employee_payroll: the computation *)

\* The timesheets of the employee inside the pay period, whatever their status.
TimesheetsInPeriod(employee_id, payroll_run) ==
    {t \in timesheets :
        /\ t.employee_id = employee_id
        /\ t.week_start_date >= payroll_run.pay_period_start
        /\ t.week_end_date <= payroll_run.pay_period_end}

\* the approved timesheets of the employee that lie inside the pay period
ApprovedTimesheets(employee_id, payroll_run) ==
    {t \in timesheets :
        /\ t.employee_id = employee_id
        /\ t.status = "approved"
        /\ t.week_start_date >= payroll_run.pay_period_start
        /\ t.week_end_date <= payroll_run.pay_period_end}

total_regular_hours(employee_id, payroll_run) ==
    LET ts == ApprovedTimesheets(employee_id, payroll_run)
    IN  SumHours(ts, "total_hours") - SumHours(ts, "overtime_hours")

total_overtime_hours(employee_id, payroll_run) ==
    SumHours(ApprovedTimesheets(employee_id, payroll_run), "overtime_hours")

\* Decimal * None raises TypeError: an hourly employee without hourly_rate
RaisesTypeError(employee) ==
    employee.salary_type = "hourly" /\ employee.hourly_rate = None

\* regular_pay and overtime_pay, unrounded, in pay units
regular_pay(employee_id, employee, payroll_run) ==
    IF employee.salary_type = "hourly"
    THEN total_regular_hours(employee_id, payroll_run) * employee.hourly_rate
         * (PayUnit \div HourScale)
    ELSE LET days_in_period == payroll_run.pay_period_end - payroll_run.pay_period_start + 1
         IN  ((employee.base_salary * PayUnit) \div DaysPerYear) * days_in_period

\* Overtime paid at the plain hourly rate, for salaried employees as well.
overtime_pay_straight(employee_id, employee, payroll_run) ==
    total_overtime_hours(employee_id, payroll_run)
        * (IF employee.hourly_rate = None THEN 1 ELSE employee.hourly_rate)
        * (PayUnit \div HourScale)

overtime_pay(employee_id, employee, payroll_run) ==
    IF employee.salary_type = "hourly"
    THEN (total_overtime_hours(employee_id, payroll_run) * employee.hourly_rate
          * (PayUnit \div HourScale) * 15) \div 10
    ELSE 0

\* the Payslip row as the database stores it (db.add, commit, refresh)
NewPayslip(employee_id, employee, payroll_run_id, payroll_run, tax_config) ==
    LET reg == regular_pay(employee_id, employee, payroll_run)
        ovt == overtime_pay(employee_id, employee, payroll_run)
        gross_pay == reg + ovt
        tax_calculations == calculate_taxes(Dollars(gross_pay), tax_config)
    IN  [employee_id |-> employee_id,
         payroll_run_id |-> payroll_run_id,
         regular_hours |-> total_regular_hours(employee_id, payroll_run),
         overtime_hours |-> total_overtime_hours(employee_id, payroll_run),
         regular_pay |-> StoreDecimal2(reg),
         overtime_pay |-> StoreDecimal2(ovt),
         gross_pay |-> StoreDecimal2(gross_pay),
         federal_tax |-> tax_calculations.federal_tax,
         state_tax |-> tax_calculations.state_tax,
         social_security |-> tax_calculations.social_security,
         medicare |-> tax_calculations.medicare,
         total_deductions |-> tax_calculations.total_deductions,
         net_pay |-> tax_calculations.net_pay,
         payment_status |-> PENDING,
         payment_method |-> None,
         pdf_url |-> None]

----------------------------------------------------------------------------
(* PayrollService.process_payroll, called by routers/payroll.py             *)
(* process_payroll_run: POST /api/payroll/{id}/process by an admin          *)

RunIds == 1 .. MaxCreateCalls

SetRun(id, row) == [payroll_runs EXCEPT ![id] = row]

\* the router's mapping of the exception that leaves process_payroll
HttpError(error) == IF error = "ValueError" THEN "404 error" ELSE "500 error"

\* where the for-loop over employees stands after `index` employees
LoopPc(call, index) ==
    IF index > Len(call.employees) THEN "finish" ELSE "payslip"

\* lines 46-50: select the run; raise ValueError when there is none
ProcessLoad(p, id) ==
    /\ calls[p].pc = "idle"
    /\ calls' = [calls EXCEPT ![p] =
          IF id \in 1 .. Len(payroll_runs)
          THEN [@ EXCEPT !.pc = "set_processing", !.payroll_run_id = id,
                         !.payroll_run = payroll_runs[id]]
          ELSE [@ EXCEPT !.pc = "done", !.payroll_run_id = id, !.error = "ValueError",
                         !.result = HttpError("ValueError")]]
    /\ UNCHANGED <<other_calls, payroll_runs, payslips, employees, timesheets, tax_configurations,
                   clock, faults, creates>>

\* Lines 52-54 with the status assigned in the session but not committed:
\* the call goes on while the row keeps its status.
ProcessSetProcessingUncommitted(p) ==
    /\ calls[p].pc = "set_processing"
    /\ calls' = [calls EXCEPT ![p].pc = "load_employees",
                              ![p].payroll_run.status = PROCESSING]
    /\ UNCHANGED <<other_calls, payroll_runs, payslips, employees, timesheets, tax_configurations,
                   clock, faults, creates>>

\* lines 52-54: status = PROCESSING; commit.  The session updates the column
\* only when the value differs from the one it loaded.
ProcessSetProcessing(p) ==
    LET call == calls[p]
        id == call.payroll_run_id
    IN  /\ call.pc = "set_processing"
        /\ payroll_runs' =
              IF call.payroll_run.status = PROCESSING THEN payroll_runs
              ELSE SetRun(id, [payroll_runs[id] EXCEPT !.status = PROCESSING])
        /\ calls' = [calls EXCEPT ![p].pc = "load_employees",
                                  ![p].payroll_run.status = PROCESSING]
        /\ UNCHANGED <<other_calls, payslips, employees, timesheets, tax_configurations, clock,
                       faults, creates>>

\* line 54 raises: outside the try, the exception goes to the router
ProcessSetProcessingFails(p) ==
    /\ calls[p].pc = "set_processing"
    /\ faults < MaxFaults
    /\ faults' = faults + 1
    /\ calls' = [calls EXCEPT ![p].pc = "done", ![p].error = "Exception",
                              ![p].result = HttpError("Exception")]
    /\ UNCHANGED <<other_calls, payroll_runs, payslips, employees, timesheets, tax_configurations,
                   clock, creates>>

\* lines 57-66: the active employees of the run's organization
ActiveEmployees(org) ==
    Ascending({e \in DOMAIN employees :
                  employees[e].org_id = org /\ employees[e].is_active})

ProcessLoadEmployees(p) ==
    /\ calls[p].pc = "load_employees"
    /\ calls' = [calls EXCEPT ![p].pc = "load_tax",
                              ![p].employees = ActiveEmployees(calls[p].payroll_run.org_id)]
    /\ UNCHANGED <<other_calls, payroll_runs, payslips, employees, timesheets, tax_configurations,
                   clock, faults, creates>>

\* lines 68-77: the active tax configurations of the organization
ActiveTaxConfigurations(org) ==
    {i \in 1 .. Len(tax_configurations) :
        tax_configurations[i].org_id = org /\ tax_configurations[i].is_active}

\* lines 68-84: scalar_one_or_none raises on several rows; no row raises
\* ValueError; both are caught by the except of line 114
ProcessLoadTaxConfig(p) ==
    LET call == calls[p]
        found == ActiveTaxConfigurations(call.payroll_run.org_id)
    IN  /\ call.pc = "load_tax"
        /\ calls' = [calls EXCEPT ![p] =
              IF found = {} THEN [@ EXCEPT !.pc = "except", !.error = "ValueError"]
              ELSE IF Cardinality(found) > 1
                   THEN [@ EXCEPT !.pc = "except", !.error = "Exception"]
              ELSE [@ EXCEPT !.pc = LoopPc(call, 1), !.index = 1,
                             !.tax_config = tax_configurations[CHOOSE i \in found : TRUE]]]
        /\ UNCHANGED <<other_calls, payroll_runs, payslips, employees, timesheets, tax_configurations,
                       clock, faults, creates>>

\* What an exception raised while one employee is processed does to the
\* call: it leaves the for-loop and reaches the except of line 114.
EmployeeRaises(call, error) == [call EXCEPT !.pc = "except", !.error = error]

\* lines 92-94 and the next iteration: add the payslip to the totals
EmployeeReturns(call) ==
    LET payslip == payslips[call.payslip]
    IN  [call EXCEPT !.total_gross_pay = @ + payslip.gross_pay,
                     !.total_net_pay = @ + payslip.net_pay,
                     !.total_taxes = @ + payslip.total_deductions,
                     !.index = @ + 1,
                     !.payslip = None,
                     !.pc = LoopPc(call, call.index + 1)]

\* lines 128-190: compute the payslip of the next employee and commit it
EmployeePayslip(p) ==
    LET call == calls[p]
        e == call.employees[call.index]
    IN  /\ call.pc = "payslip"
        /\ IF RaisesTypeError(employees[e])
           THEN /\ calls' = [calls EXCEPT ![p] = EmployeeRaises(call, "Exception")]
                /\ UNCHANGED payslips
           ELSE /\ payslips' = Append(payslips,
                      NewPayslip(e, employees[e], call.payroll_run_id, call.payroll_run,
                                 call.tax_config))
                /\ calls' = [calls EXCEPT ![p].pc = "pdf", ![p].payslip = Len(payslips) + 1]
        /\ UNCHANGED <<other_calls, payroll_runs, employees, timesheets, tax_configurations, clock,
                       faults, creates>>

\* line 189 raises
EmployeePayslipFails(p) ==
    LET call == calls[p]
    IN  /\ call.pc = "payslip"
        /\ ~RaisesTypeError(employees[call.employees[call.index]])
        /\ faults < MaxFaults
        /\ faults' = faults + 1
        /\ calls' = [calls EXCEPT ![p] = EmployeeRaises(call, "Exception")]
        /\ UNCHANGED <<other_calls, payroll_runs, payslips, employees, timesheets, tax_configurations,
                       clock, creates>>

\* After _generate_payslip_pdf, with the payment made for every employee.
AfterPdfPayAll(call) == [call EXCEPT !.pc = "payment"]

\* after _generate_payslip_pdf: line 196, pay only with a bank_account_id
AfterPdf(call) ==
    IF employees[call.employees[call.index]].bank_account_id # None
    THEN [call EXCEPT !.pc = "payment"]
    ELSE EmployeeReturns(call)

\* lines 201-216: the PDF is generated and its url committed
GeneratePayslipPdf(p) ==
    LET call == calls[p]
    IN  /\ call.pc = "pdf"
        /\ payslips' = [payslips EXCEPT ![call.payslip].pdf_url = call.payslip]
        /\ calls' = [calls EXCEPT ![p] = AfterPdf(call)]
        /\ UNCHANGED <<other_calls, payroll_runs, employees, timesheets, tax_configurations, clock,
                       faults, creates>>

\* lines 218-219: the PDF service or the commit raises; printed and dropped
GeneratePayslipPdfFails(p) ==
    LET call == calls[p]
    IN  /\ call.pc = "pdf"
        /\ calls' = [calls EXCEPT ![p] = AfterPdf(call)]
        /\ UNCHANGED <<other_calls, payroll_runs, payslips, employees, timesheets, tax_configurations,
                       clock, faults, creates>>

\* The payment result written to the payslip together with a net_pay of 0.
RecordPaymentAndNetPay(payslip) ==
    [payslip EXCEPT !.payment_method = "plaid", !.payment_status = FAILED, !.net_pay = 0]

\* lines 232-234: the columns of the payslip that take the payment result
RecordPayment(payslip) ==
    [payslip EXCEPT !.payment_method = "plaid", !.payment_status = FAILED]

\* lines 225-236 with send_payment_via_plaid returning its 'failed' result
\* (payment_service.py 68-75): recorded on the payslip and committed
ProcessPaymentFailed(p) ==
    LET call == calls[p]
    IN  /\ call.pc = "payment"
        /\ payslips' = [payslips EXCEPT ![call.payslip] = RecordPayment(@)]
        /\ calls' = [calls EXCEPT ![p] = EmployeeReturns(call)]
        /\ UNCHANGED <<other_calls, payroll_runs, employees, timesheets, tax_configurations, clock,
                       faults, creates>>

\* lines 232-239: the commit of the payment result raises (a Plaid status
\* is no member of PaymentStatus, or the database fails); the except block
\* calls logger, which the module never defines, so NameError escapes
ProcessPaymentRaises(p) ==
    LET call == calls[p]
    IN  /\ call.pc = "payment"
        /\ calls' = [calls EXCEPT ![p] = EmployeeRaises(call, "Exception")]
        /\ UNCHANGED <<other_calls, payroll_runs, payslips, employees, timesheets, tax_configurations,
                       clock, faults, creates>>

\* the columns of the run the session writes at line 103: those whose value
\* differs from the loaded one, and status and processed_at
CompletedRun(row, call) ==
    [row EXCEPT !.total_gross_pay =
                    IF call.total_gross_pay = call.payroll_run.total_gross_pay THEN @
                    ELSE call.total_gross_pay,
                !.total_net_pay =
                    IF call.total_net_pay = call.payroll_run.total_net_pay THEN @
                    ELSE call.total_net_pay,
                !.total_taxes =
                    IF call.total_taxes = call.payroll_run.total_taxes THEN @
                    ELSE call.total_taxes,
                !.status = COMPLETED,
                !.processed_at = clock]

\* lines 96-112: totals, COMPLETED and processed_at in one commit
ProcessFinish(p) ==
    LET call == calls[p]
        id == call.payroll_run_id
    IN  /\ call.pc = "finish"
        /\ payroll_runs' = SetRun(id, CompletedRun(payroll_runs[id], call))
        /\ clock' = clock + 1
        /\ calls' = [calls EXCEPT ![p].pc = "done", ![p].result = "200 completed"]
        /\ UNCHANGED <<other_calls, payslips, employees, timesheets, tax_configurations, faults, creates>>

\* line 103 raises
ProcessFinishFails(p) ==
    /\ calls[p].pc = "finish"
    /\ faults < MaxFaults
    /\ faults' = faults + 1
    /\ calls' = [calls EXCEPT ![p].pc = "except", ![p].error = "Exception"]
    /\ UNCHANGED <<other_calls, payroll_runs, payslips, employees, timesheets, tax_configurations,
                   clock, creates>>

\* The except block without its assignment of FAILED.
ExceptStatusKept == PROCESSING

\* the status the except block of line 114 gives the run
ExceptStatus == FAILED

\* lines 114-118: status = FAILED; commit; raise e
ProcessExcept(p) ==
    LET call == calls[p]
        id == call.payroll_run_id
    IN  /\ call.pc = "except"
        /\ payroll_runs' = SetRun(id, [payroll_runs[id] EXCEPT !.status = ExceptStatus])
        /\ calls' = [calls EXCEPT ![p].pc = "done", ![p].result = HttpError(call.error)]
        /\ UNCHANGED <<other_calls, payslips, employees, timesheets, tax_configurations, clock,
                       faults, creates>>

\* line 117 raises: the run keeps the status the database has
ProcessExceptFails(p) ==
    /\ calls[p].pc = "except"
    /\ faults < MaxFaults
    /\ faults' = faults + 1
    /\ calls' = [calls EXCEPT ![p].pc = "done", ![p].error = "Exception",
                              ![p].result = HttpError("Exception")]
    /\ UNCHANGED <<other_calls, payroll_runs, payslips, employees, timesheets, tax_configurations,
                   clock, creates>>

----------------------------------------------------------------------------

Next ==
    \/ \E c \in CreateIds, org \in Orgs, period \in PayPeriods : CreateCheck(c, org, period)
    \/ \E c \in CreateIds : CreateInsert(c)
    \/ \E c \in CreateIds : CreateInsertFails(c)
    \/ \E p \in CallIds, id \in RunIds : ProcessLoad(p, id)
    \/ \E p \in CallIds : ProcessSetProcessing(p)
    \/ \E p \in CallIds : ProcessSetProcessingFails(p)
    \/ \E p \in CallIds : ProcessLoadEmployees(p)
    \/ \E p \in CallIds : ProcessLoadTaxConfig(p)
    \/ \E p \in CallIds : EmployeePayslip(p)
    \/ \E p \in CallIds : EmployeePayslipFails(p)
    \/ \E p \in CallIds : GeneratePayslipPdf(p)
    \/ \E p \in CallIds : GeneratePayslipPdfFails(p)
    \/ \E p \in CallIds : ProcessPaymentFailed(p)
    \/ \E p \in CallIds : ProcessPaymentRaises(p)
    \/ \E p \in CallIds : ProcessFinish(p)
    \/ \E p \in CallIds : ProcessFinishFails(p)
    \/ \E p \in CallIds : ProcessExcept(p)
    \/ \E p \in CallIds : ProcessExceptFails(p)

Spec == Init /\ [][Next]_vars

\* The create handler alone: no other handler inserts or deletes a run or
\* writes a run's org_id or pay period.
NextCreate ==
    \/ \E c \in CreateIds, org \in Orgs, period \in PayPeriods : CreateCheck(c, org, period)
    \/ \E c \in CreateIds : CreateInsert(c)
    \/ \E c \in CreateIds : CreateInsertFails(c)

SpecCreate == Init /\ [][NextCreate]_vars

----------------------------------------------------------------------------
(* routers/timesheets.py: create_timesheet, update_timesheet,               *)
(* approve_timesheet, delete_timesheet.  A role stands for the groups of    *)
(* current_user; caller is the employee row whose cognito_sub is the        *)
(* current user's.                                                          *)

Roles == {"admin", "manager", "employee"}

\* the employee rows current_user.sub can resolve to
Callers(role) == IF role = "employee" THEN EmployeeIds ELSE {None}

\* UserRole.EMPLOYEE.value in groups and UserRole.ADMIN.value not in groups
EmployeeOnly(role) == role = "employee"

\* the primary key the database gives the row that call t inserts
NewTimesheetId(t) == 2 * MaxEmployees + t

TimesheetIds == 1 .. 2 * MaxEmployees + MaxTimesheetCalls

\* request bodies: TimesheetCreate weeks and day hours, TimesheetUpdate with
\* the unset fields None
CreateWeeks == {<<8, 14>>, <<15, 21>>}

CreateHours == {Hours(<<8, 8, 8, 8, 8, 0, 0>>), Hours(<<10, 10, 10, 10, 10, 0, 0>>)}

TimesheetUpdates ==
    {[d \in 1 .. 7 |-> IF d = 1 THEN 12 * HourScale ELSE None],
     [d \in 1 .. 7 |-> IF d = 7 THEN 1 * HourScale ELSE None]}

\* select(Timesheet).where(Timesheet.id == timesheet_id)
TimesheetById(id) == {r \in timesheets : r.id = id}

TimesheetReturns(t, result) == [ts_calls EXCEPT ![t].pc = "done", ![t].result = result]

\* what a timesheet handler leaves alone
TimesheetFrame ==
    UNCHANGED <<payroll_vars, employees, tax_configurations, tax_calls, emp_calls, taxes>>

\* create_timesheet lines 38-72: permissions and the check for an existing
\* timesheet of the employee and week
TimesheetCreateCheck(t, role, caller, employee_id, week, day_hours) ==
    LET existing == {r \in timesheets :
                        r.employee_id = employee_id /\ r.week_start_date = week[1]}
        call == [ts_calls[t] EXCEPT !.op = "create", !.role = role, !.caller = caller,
                                    !.data = <<employee_id, week, day_hours>>]
    IN  /\ ts_calls[t].pc = "idle"
        /\ ts_calls' = [ts_calls EXCEPT ![t] =
              IF EmployeeOnly(role) /\ employee_id # caller
              THEN [call EXCEPT !.pc = "done", !.result = "403"]
              ELSE IF ~EmployeeOnly(role) /\ employee_id \notin DOMAIN employees
              THEN [call EXCEPT !.pc = "done", !.result = "404"]
              ELSE IF Cardinality(existing) = 1
              THEN [call EXCEPT !.pc = "done", !.result = "400"]
              ELSE IF Cardinality(existing) > 1
              THEN [call EXCEPT !.pc = "done", !.result = "500"]
              ELSE [call EXCEPT !.pc = "insert"]]
        /\ UNCHANGED timesheets
        /\ TimesheetFrame

\* create_timesheet lines 74-94: totals, insert, commit
TimesheetCreateInsert(t) ==
    LET call == ts_calls[t]
    IN  /\ call.pc = "insert"
        /\ timesheets' = timesheets \cup
              {NewTimesheet(NewTimesheetId(t), call.data[1], call.data[2], call.data[3])}
        /\ ts_calls' = [ts_calls EXCEPT ![t].pc = "done", ![t].result = "200",
                                        ![t].timesheet_id = NewTimesheetId(t)]
        /\ TimesheetFrame

\* update_timesheet lines 194-223: load the row and check the permissions.
\* TimesheetStatus has no member DRAFT, so line 216 raises AttributeError
\* for an employee who updates a timesheet of their own.
TimesheetUpdateLoad(t, role, caller, id, update) ==
    LET found == TimesheetById(id)
        call == [ts_calls[t] EXCEPT !.op = "update", !.role = role, !.caller = caller,
                                    !.timesheet_id = id, !.data = update]
    IN  /\ ts_calls[t].pc = "idle"
        /\ ts_calls' = [ts_calls EXCEPT ![t] =
              IF found = {} THEN [call EXCEPT !.pc = "done", !.result = "404"]
              ELSE LET timesheet == CHOOSE r \in found : TRUE
                   IN  IF EmployeeOnly(role) /\ timesheet.employee_id # caller
                       THEN [call EXCEPT !.pc = "done", !.result = "403"]
                       ELSE IF EmployeeOnly(role)
                       THEN [call EXCEPT !.pc = "done", !.result = "500"]
                       ELSE [call EXCEPT !.pc = "commit", !.timesheet = timesheet]]
        /\ UNCHANGED timesheets
        /\ TimesheetFrame

\* the day-hour columns after the UPDATE of line 227: the session writes the
\* fields of the request whose value differs from the loaded one
UpdatedDayHours(row, loaded, update) ==
    [d \in 1 .. 7 |->
        IF update[d] # None /\ update[d] # loaded.day_hours[d] THEN update[d]
        ELSE row.day_hours[d]]

\* update_timesheet lines 224-230: setattr, commit, refresh
TimesheetUpdateCommit(t) ==
    LET call == ts_calls[t]
        found == TimesheetById(call.timesheet_id)
    IN  /\ call.pc = "commit"
        /\ call.op = "update"
        /\ IF found = {}
           THEN /\ ts_calls' = TimesheetReturns(t, "500")
                /\ UNCHANGED timesheets
           ELSE LET row == CHOOSE r \in found : TRUE
                IN  /\ timesheets' = (timesheets \ {row}) \cup
                          {[row EXCEPT !.day_hours =
                                UpdatedDayHours(row, call.timesheet, call.data)]}
                    /\ ts_calls' = TimesheetReturns(t, "200")
        /\ TimesheetFrame

\* The status test of line 254 without the test.
ApprovableAlways(timesheet) == TRUE

\* line 254: timesheet.status != TimesheetStatus.PENDING is an error
Approvable(timesheet) == timesheet.status = "pending"

\* approve_timesheet lines 239-258: admin only, pending timesheets only
TimesheetApproveLoad(t, role, id) ==
    LET found == TimesheetById(id)
        call == [ts_calls[t] EXCEPT !.op = "approve", !.role = role, !.timesheet_id = id]
    IN  /\ ts_calls[t].pc = "idle"
        /\ ts_calls' = [ts_calls EXCEPT ![t] =
              IF role # "admin" THEN [call EXCEPT !.pc = "done", !.result = "403"]
              ELSE IF found = {} THEN [call EXCEPT !.pc = "done", !.result = "404"]
              ELSE LET timesheet == CHOOSE r \in found : TRUE
                   IN  IF ~Approvable(timesheet)
                       THEN [call EXCEPT !.pc = "done", !.result = "400"]
                       ELSE [call EXCEPT !.pc = "commit", !.timesheet = timesheet]]
        /\ UNCHANGED timesheets
        /\ TimesheetFrame

\* approve_timesheet lines 260-264: status = APPROVED, commit, refresh
TimesheetApproveCommit(t) ==
    LET call == ts_calls[t]
        found == TimesheetById(call.timesheet_id)
    IN  /\ call.pc = "commit"
        /\ call.op = "approve"
        /\ IF found = {}
           THEN /\ ts_calls' = TimesheetReturns(t, "500")
                /\ UNCHANGED timesheets
           ELSE LET row == CHOOSE r \in found : TRUE
                IN  /\ timesheets' = (timesheets \ {row}) \cup
                          {[row EXCEPT !.status = "approved"]}
                    /\ ts_calls' = TimesheetReturns(t, "200")
        /\ TimesheetFrame

\* delete_timesheet lines 273-300: approved timesheets are kept; an employee
\* deletes only timesheets of their own
TimesheetDeleteLoad(t, role, caller, id) ==
    LET found == TimesheetById(id)
        call == [ts_calls[t] EXCEPT !.op = "delete", !.role = role, !.caller = caller,
                                    !.timesheet_id = id]
    IN  /\ ts_calls[t].pc = "idle"
        /\ ts_calls' = [ts_calls EXCEPT ![t] =
              IF found = {} THEN [call EXCEPT !.pc = "done", !.result = "404"]
              ELSE LET timesheet == CHOOSE r \in found : TRUE
                   IN  IF timesheet.status = "approved"
                       THEN [call EXCEPT !.pc = "done", !.result = "400"]
                       ELSE IF EmployeeOnly(role) /\ timesheet.employee_id # caller
                       THEN [call EXCEPT !.pc = "done", !.result = "403"]
                       ELSE [call EXCEPT !.pc = "commit", !.timesheet = timesheet]]
        /\ UNCHANGED timesheets
        /\ TimesheetFrame

\* delete_timesheet lines 302-305: DELETE by primary key, commit
TimesheetDeleteCommit(t) ==
    LET call == ts_calls[t]
    IN  /\ call.pc = "commit"
        /\ call.op = "delete"
        /\ timesheets' = timesheets \ TimesheetById(call.timesheet_id)
        /\ ts_calls' = TimesheetReturns(t, "200")
        /\ TimesheetFrame

NextTimesheets ==
    \/ \E t \in TimesheetCallIds, role \in Roles, employee_id \in EmployeeIds,
          week \in CreateWeeks, day_hours \in CreateHours :
          \E caller \in Callers(role) :
             TimesheetCreateCheck(t, role, caller, employee_id, week, day_hours)
    \/ \E t \in TimesheetCallIds : TimesheetCreateInsert(t)
    \/ \E t \in TimesheetCallIds, role \in Roles, id \in TimesheetIds,
          update \in TimesheetUpdates :
          \E caller \in Callers(role) : TimesheetUpdateLoad(t, role, caller, id, update)
    \/ \E t \in TimesheetCallIds : TimesheetUpdateCommit(t)
    \/ \E t \in TimesheetCallIds, role \in Roles, id \in TimesheetIds :
          TimesheetApproveLoad(t, role, id)
    \/ \E t \in TimesheetCallIds : TimesheetApproveCommit(t)
    \/ \E t \in TimesheetCallIds, role \in Roles, id \in TimesheetIds :
          \E caller \in Callers(role) : TimesheetDeleteLoad(t, role, caller, id)
    \/ \E t \in TimesheetCallIds : TimesheetDeleteCommit(t)

InitTimesheets == InitTables({HourlyRate}) /\ taxes = IdleTaxes

SpecTimesheets == InitTimesheets /\ [][NextTimesheets]_vars

----------------------------------------------------------------------------
(* routers/organizations.py create_tax_configuration:                       *)
(* POST /api/organizations/{org_id}/tax-config                              *)

\* request bodies: the rates of TaxConfigurationRow, and the same with a
\* federal_tax_rate of 1
TaxConfigBodies ==
    {TaxConfigurationRow(1), [TaxConfigurationRow(1) EXCEPT !.federal_tax_rate = RateScale]}

\* lines 105-131: admin only; reject when the organization has a configuration
TaxConfigCheck(k, role, org, body) ==
    LET existing == {i \in 1 .. Len(tax_configurations) : tax_configurations[i].org_id = org}
        call == [tax_calls[k] EXCEPT !.org_id = org, !.rates = body]
    IN  /\ tax_calls[k].pc = "idle"
        /\ tax_calls' = [tax_calls EXCEPT ![k] =
              IF role # "admin" THEN [call EXCEPT !.pc = "done", !.result = "403"]
              ELSE IF org \notin Orgs THEN [call EXCEPT !.pc = "done", !.result = "404"]
              ELSE IF Cardinality(existing) = 1
              THEN [call EXCEPT !.pc = "done", !.result = "400"]
              ELSE IF Cardinality(existing) > 1
              THEN [call EXCEPT !.pc = "done", !.result = "500"]
              ELSE [call EXCEPT !.pc = "insert"]]
        /\ UNCHANGED <<payroll_vars, employees, timesheets, tax_configurations, ts_calls,
                       emp_calls, taxes>>

\* lines 133-141: insert the configuration, is_active by its column default
TaxConfigInsert(k) ==
    LET call == tax_calls[k]
    IN  /\ call.pc = "insert"
        /\ tax_configurations' = Append(tax_configurations,
              [call.rates EXCEPT !.org_id = call.org_id, !.is_active = TRUE])
        /\ tax_calls' = [tax_calls EXCEPT ![k].pc = "done", ![k].result = "200"]
        /\ UNCHANGED <<payroll_vars, employees, timesheets, ts_calls, emp_calls, taxes>>

----------------------------------------------------------------------------
(* One run, created by one call and processed by one call, every database   *)
(* write succeeding, while tax configurations are created.                  *)

NextOneRun ==
    \/ \E period \in PayPeriods : CreateCheck(1, 1, period)
    \/ CreateInsert(1)
    \/ ProcessLoad(1, 1)
    \/ ProcessSetProcessing(1)
    \/ ProcessLoadEmployees(1)
    \/ ProcessLoadTaxConfig(1)
    \/ EmployeePayslip(1)
    \/ GeneratePayslipPdf(1)
    \/ GeneratePayslipPdfFails(1)
    \/ ProcessPaymentFailed(1)
    \/ ProcessPaymentRaises(1)
    \/ ProcessFinish(1)
    \/ ProcessExcept(1)
    \/ \E k \in TaxCallIds, role \in Roles, org \in Orgs, body \in TaxConfigBodies :
          TaxConfigCheck(k, role, org, body)
    \/ \E k \in TaxCallIds : TaxConfigInsert(k)

InitOneRun == InitTables({None, 0, HourlyRate}) /\ taxes = IdleTaxes

SpecOneRun == InitOneRun /\ [][NextOneRun]_vars

----------------------------------------------------------------------------
(* TaxService.calculate_taxes called on its own, as                         *)
(* routers/timesheets.py calculate_taxes_for_timesheet calls it             *)

\* gross pays, as <<dollars, pay units>>: 0, 0.50, 1.38, 1000.00, and the
\* amounts at and around the wage base and the medicare threshold
TaxGrosses ==
    {<<0, 0>>, <<0, UnitsPerDollar \div 2>>, Dollars(138 * PayUnit), <<1000, 0>>,
     <<SocialSecurityWageBase, 0>>, <<SocialSecurityWageBase, PayUnit>>,
     <<MedicareThreshold, 0>>, <<MedicareThreshold, PayUnit>>,
     <<MedicareThreshold + 10000, UnitsPerDollar \div 2>>}

\* tax configurations as schemas.py TaxConfigurationBase admits them: each
\* rate between 0 and 1
TaxRates ==
    {[TaxConfigurationRow(1) EXCEPT !.federal_tax_rate = f, !.state_tax_rate = s,
                                     !.social_security_rate = ss, !.medicare_rate = m] :
        f \in {0, TaxConfigurationRow(1).federal_tax_rate, RateScale},
        s \in {0, TaxConfigurationRow(1).state_tax_rate},
        ss \in {0, TaxConfigurationRow(1).social_security_rate, RateScale},
        m \in {TaxConfigurationRow(1).medicare_rate, RateScale}}

InitTaxes ==
    /\ InitTables({HourlyRate})
    /\ \E gross_pay \in TaxGrosses, tax_config \in TaxRates :
          taxes = [gross_pay |-> gross_pay, tax_config |-> tax_config, result |-> <<>>]

\* tax_service.calculate_taxes(gross_pay, tax_config, employee)
CalculateTaxes ==
    /\ taxes.gross_pay # <<>>
    /\ taxes.result = <<>>
    /\ taxes' = [taxes EXCEPT !.result = calculate_taxes(taxes.gross_pay, taxes.tax_config)]
    /\ UNCHANGED <<payroll_vars, employees, timesheets, tax_configurations, ts_calls, tax_calls,
                   emp_calls>>

NextTaxes == CalculateTaxes

SpecTaxes == InitTaxes /\ [][NextTaxes]_vars

----------------------------------------------------------------------------
(* routers/employees.py delete_employee: DELETE /api/employees/{id}         *)

\* line 281, current_user.get("groups", []): current_user is a UserInfo
\* (get_current_user_info, lines 35-39), a pydantic model without a method
\* get, so the call raises AttributeError for every caller
CurrentUserGetRaises == TRUE

\* line 297: the soft delete
SoftDeleted(employee) == [employee EXCEPT !.is_active = FALSE]

\* lines 275-300: the permission check, the select, and the soft delete with
\* its commit; nothing is written before the check of line 281
DeleteEmployee(d, role, employee_id) ==
    LET result == IF CurrentUserGetRaises THEN "500"
                  ELSE IF role # "admin" THEN "403"
                  ELSE IF employee_id \notin DOMAIN employees THEN "404"
                  ELSE "200"
    IN  /\ emp_calls[d].pc = "idle"
        /\ emp_calls' = [emp_calls EXCEPT ![d] =
              [pc |-> "done", employee_id |-> employee_id, result |-> result]]
        /\ employees' = IF result = "200"
                        THEN [employees EXCEPT ![employee_id] = SoftDeleted(@)]
                        ELSE employees
        /\ UNCHANGED <<payroll_vars, timesheets, tax_configurations, ts_calls, tax_calls, taxes>>

\* One run, created by one call and processed by one call, every database
\* write succeeding, while employees are deleted.
NextEmployees ==
    \/ \E period \in PayPeriods : CreateCheck(1, 1, period)
    \/ CreateInsert(1)
    \/ ProcessLoad(1, 1)
    \/ ProcessSetProcessing(1)
    \/ ProcessLoadEmployees(1)
    \/ ProcessLoadTaxConfig(1)
    \/ EmployeePayslip(1)
    \/ GeneratePayslipPdf(1)
    \/ GeneratePayslipPdfFails(1)
    \/ ProcessPaymentFailed(1)
    \/ ProcessPaymentRaises(1)
    \/ ProcessFinish(1)
    \/ ProcessExcept(1)
    \/ \E d \in EmployeeCallIds, role \in Roles, employee_id \in EmployeeIds :
          DeleteEmployee(d, role, employee_id)

InitEmployees == InitTables({HourlyRate}) /\ taxes = IdleTaxes

SpecEmployees == InitEmployees /\ [][NextEmployees]_vars

----------------------------------------------------------------------------
(* One pending run of any pay period, processed by one call with every      *)
(* database write succeeding, over employees of both salary types and       *)
(* timesheets of either status.                                             *)

\* pay periods of the run: the first week, both weeks, the second week, and
\* two periods that cut a week
ProcessPeriods == {<<1, 7>>, <<1, 14>>, <<8, 14>>, <<2, 14>>, <<1, 13>>}

\* employee e as create_employee can have stored it: paid by the hour at
\* one of two rates, or on a fixed salary
EmployeeVariants(e) ==
    {EmployeeRow(e, HourlyRate, TRUE),
     EmployeeRow(e, 1, TRUE),
     [EmployeeRow(e, None, TRUE) EXCEPT !.salary_type = "fixed",
                                        !.base_salary = DaysPerYear * 10,
                                        !.hourly_rate = None]}

InitPayslips ==
    /\ \E period \in ProcessPeriods : payroll_runs = <<NewPayrollRun(1, period)>>
    /\ payslips = <<>>
    /\ employees \in {f \in [EmployeeIds -> UNION {EmployeeVariants(e) : e \in EmployeeIds}] :
                         \A e \in EmployeeIds : f[e] \in EmployeeVariants(e)}
    /\ \E approved \in SUBSET (1 .. 2 * MaxEmployees) :
          timesheets = {[r EXCEPT !.status = IF r.id \in approved THEN "approved" ELSE "pending"] :
                           r \in UNION {TimesheetRows(e) : e \in EmployeeIds}}
    /\ tax_configurations = <<TaxConfigurationRow(1)>>
    /\ clock = 1
    /\ faults = 0
    /\ creates = [c \in CreateIds |-> IdleCreate]
    /\ calls = [p \in CallIds |-> IdleCall]
    /\ ts_calls = [t \in TimesheetCallIds |-> IdleTimesheetCall]
    /\ tax_calls = [k \in TaxCallIds |-> IdleTaxCall]
    /\ emp_calls = [d \in EmployeeCallIds |-> IdleEmployeeCall]
    /\ taxes = IdleTaxes

NextPayslips ==
    \/ ProcessLoad(1, 1)
    \/ ProcessSetProcessing(1)
    \/ ProcessLoadEmployees(1)
    \/ ProcessLoadTaxConfig(1)
    \/ EmployeePayslip(1)
    \/ GeneratePayslipPdf(1)
    \/ GeneratePayslipPdfFails(1)
    \/ ProcessPaymentFailed(1)
    \/ ProcessPaymentRaises(1)
    \/ ProcessFinish(1)
    \/ ProcessExcept(1)

SpecPayslips == InitPayslips /\ [][NextPayslips]_vars

----------------------------------------------------------------------------
(* Properties *)

RunExists(id) == id \in 1 .. Len(payroll_runs)

\* the payslip rows of a run, and of one employee in a run
PayslipsOfRun(id) == {i \in 1 .. Len(payslips) : payslips[i].payroll_run_id = id}

PayslipsOf(id, e) == {i \in PayslipsOfRun(id) : payslips[i].employee_id = e}

\* the runs of one (org, pay_period_start, pay_period_end)
RunsOfPeriod(org, start, end) ==
    {i \in 1 .. Len(payroll_runs) :
        /\ payroll_runs[i].org_id = org
        /\ payroll_runs[i].pay_period_start = start
        /\ payroll_runs[i].pay_period_end = end}

\* a call that is past the commit of status = PROCESSING and not yet returned
InFlight(p) ==
    calls[p].pc \in {"load_employees", "load_tax", "payslip", "pdf", "payment",
                     "finish", "except"}

RECURSIVE SumPayslips(_, _)
SumPayslips(ids, col) ==
    IF ids = {} THEN 0
    ELSE LET i == CHOOSE x \in ids : TRUE
         IN  payslips[i][col] + SumPayslips(ids \ {i}, col)

\* C1: for one run, at most one process_payroll call at a time is past the
\* pending -> processing transition and inside the per-employee work.
C1_ExclusiveProcessing ==
    \A p, q \in CallIds :
        (InFlight(p) /\ InFlight(q) /\ calls[p].payroll_run_id = calls[q].payroll_run_id)
            => p = q

\* C2: a process_payroll call that loaded a run whose status is not pending
\* returns an error at once and changes neither the runs nor the payslips.
C2_NonPendingRejected ==
    [][\A p \in CallIds :
          (/\ calls[p].pc = "set_processing"
           /\ calls[p].payroll_run.status # PENDING
           /\ calls'[p] # calls[p])
              => /\ calls'[p].pc = "done"
                 /\ calls'[p].error # "none"
                 /\ payroll_runs' = payroll_runs
                 /\ payslips' = payslips]_vars

\* C3: a run is created pending, its status changes only pending ->
\* processing, processing -> completed and processing -> failed, and a
\* completed or failed run never changes again.
C3_RunLifecycle ==
    [][/\ \A id \in 1 .. Len(payroll_runs') :
            ~RunExists(id) => payroll_runs'[id].status = PENDING
       /\ \A id \in 1 .. Len(payroll_runs) :
            LET old == payroll_runs[id]
                new == payroll_runs'[id]
            IN  /\ old.status = new.status
                   \/ <<old.status, new.status>> \in
                         {<<PENDING, PROCESSING>>, <<PROCESSING, COMPLETED>>,
                          <<PROCESSING, FAILED>>}
                /\ old.status \in {COMPLETED, FAILED} => new = old]_vars

\* C4: a run ends failed only for a missing tax configuration or a failed
\* database write; a failure of one employee leaves the run to complete.
C4_EmployeeFailureIsolated ==
    \A id \in 1 .. Len(payroll_runs) :
        payroll_runs[id].status = FAILED
            => \/ faults > 0
               \/ ActiveTaxConfigurations(payroll_runs[id].org_id) = {}

\* C5: when a process_payroll call finds no active tax configuration for the
\* run's organization and its writes succeed, then as the call returns the
\* run is failed, the caller has an error, and the run has no payslip.
C5_MissingTaxConfigFailsRun ==
    [][\A p \in CallIds :
          (/\ calls[p].pc = "except"
           /\ calls[p].error = "ValueError"
           /\ calls'[p].pc = "done"
           /\ calls'[p].error = "ValueError")
              => /\ payroll_runs'[calls[p].payroll_run_id].status = FAILED
                 /\ calls'[p].result = "404 error"
                 /\ \A i \in 1 .. Len(payslips') :
                       payslips'[i].payroll_run_id # calls[p].payroll_run_id]_vars

\* C5 witness: a call has returned its error for a run of an organization
\* without tax configuration that has MaxEmployees active employees; the
\* run is failed.
C5_Witness ==
    \E p \in CallIds :
        /\ calls[p].pc = "done"
        /\ calls[p].error = "ValueError"
        /\ RunExists(calls[p].payroll_run_id)
        /\ Len(calls[p].employees) = MaxEmployees
        /\ payroll_runs[calls[p].payroll_run_id].status = FAILED

\* C6: a create call whose duplicate check runs while exactly one run of its
\* (org, period) is committed gets the duplicate error and inserts nothing.
C6_DuplicateRejected ==
    [][\A c \in CreateIds :
          (/\ creates[c].pc = "idle"
           /\ creates'[c].pc # "idle"
           /\ Cardinality(RunsOfPeriod(creates'[c].org_id, creates'[c].period[1],
                                       creates'[c].period[2])) = 1)
              => /\ creates'[c].pc = "done"
                 /\ creates'[c].result = "400 duplicate"
                 /\ payroll_runs' = payroll_runs]_vars

\* C6 witness: a create call was rejected as a duplicate and its period
\* still has exactly one run.
C6_Witness ==
    \E c \in CreateIds :
        /\ creates[c].result = "400 duplicate"
        /\ Cardinality(RunsOfPeriod(creates[c].org_id, creates[c].period[1],
                                    creates[c].period[2])) = 1

\* C7: no (org, pay_period_start, pay_period_end) ever has two runs.
C7_OneRunPerPeriod ==
    \A org \in Orgs, period \in PayPeriods :
        Cardinality(RunsOfPeriod(org, period[1], period[2])) <= 1

\* C8: no (run, employee) ever has two payslips.
C8_OnePayslipPerEmployee ==
    \A id \in 1 .. Len(payroll_runs), e \in EmployeeIds :
        Cardinality(PayslipsOf(id, e)) <= 1

\* C9: the totals of a completed run are the sums of gross_pay, net_pay and
\* total_deductions over the payslips of the run.
C9_TotalsAreSums ==
    \A id \in 1 .. Len(payroll_runs) :
        payroll_runs[id].status = COMPLETED
            => /\ payroll_runs[id].total_gross_pay
                    = SumPayslips(PayslipsOfRun(id), "gross_pay")
               /\ payroll_runs[id].total_net_pay
                    = SumPayslips(PayslipsOfRun(id), "net_pay")
               /\ payroll_runs[id].total_taxes
                    = SumPayslips(PayslipsOfRun(id), "total_deductions")

\* C10: a run is not left in processing: once every call that loaded the run
\* has returned, its status is not processing.
C10_NoRunLeftProcessing ==
    \A id \in 1 .. Len(payroll_runs) :
        (\A p \in CallIds : calls[p].payroll_run_id = id => calls[p].pc = "done")
            => payroll_runs[id].status # PROCESSING

\* C11: a failure of the PDF, of the notification or of the payment of an
\* employee stays inside _process_employee_payroll: the step of a call that
\* is generating the PDF or paying leaves the call without exception, in the
\* loop or finishing, and the payslip it committed is still there.
C11_PostCommitFailuresContained ==
    [][\A p \in CallIds :
          (calls[p].pc \in {"pdf", "payment"} /\ calls'[p] # calls[p])
              => /\ calls'[p].pc \in {"payment", "payslip", "finish"}
                 /\ calls'[p].error = "none"
                 /\ calls[p].payslip \in 1 .. Len(payslips')]_vars

\* a payslip that no call is still generating the PDF of or paying
HandedOff(i) ==
    \A p \in CallIds : calls[p].pc \in {"pdf", "payment"} => calls[p].payslip # i

\* C12: a payslip is created pending, and once the hand-offs of a payslip are
\* over, a payslip whose PDF was not generated has payment_status failed.
C12_HandOffFailureRecorded ==
    \A i \in 1 .. Len(payslips) :
        (HandedOff(i) /\ payslips[i].pdf_url = None)
            => payslips[i].payment_status = FAILED

\* an amount of whole cents that is a nearest cent of the exact amount a
IsNearestCent(cents, a) ==
    \/ cents = a[1] /\ 2 * a[2] <= TaxScale
    \/ cents = a[1] + 1 /\ 2 * a[2] >= TaxScale

\* the reference function of the tax calculator, in exact amounts
ReferenceTaxes(gross_pay, tax_config) ==
    LET federal_tax == Times(gross_pay, tax_config.federal_tax_rate)
        state_tax == Times(gross_pay, tax_config.state_tax_rate)
        wages == IF ExceedsDollars(gross_pay, SocialSecurityWageBase)
                 THEN <<SocialSecurityWageBase, 0>> ELSE gross_pay
        social_security == Times(wages, tax_config.social_security_rate)
        excess == IF ExceedsDollars(gross_pay, MedicareThreshold)
                  THEN <<gross_pay[1] - MedicareThreshold, gross_pay[2]>> ELSE <<0, 0>>
        medicare == Plus(Times(gross_pay, tax_config.medicare_rate),
                         Times(excess, AdditionalMedicareRate))
        total_deductions == Plus(Plus(Plus(federal_tax, state_tax), social_security), medicare)
    IN  [federal_tax |-> federal_tax, state_tax |-> state_tax,
         social_security |-> social_security, medicare |-> medicare,
         total_deductions |-> total_deductions,
         net_pay |-> Minus(GrossMoney(gross_pay), total_deductions)]

C19_MoneyNonNegative ==
    taxes.result # <<>> =>
        \A field \in DOMAIN taxes.result : taxes.result[field] >= 0

\* C14: every stored timesheet has total_hours equal to the sum of its seven
\* day hours and overtime_hours equal to max(0, total_hours - 40).
C14_TimesheetTotals ==
    \A r \in timesheets :
        /\ r.total_hours = DayHoursTotal(r.day_hours)
        /\ r.overtime_hours =
              IF r.total_hours > OvertimeThreshold * HourScale
              THEN r.total_hours - OvertimeThreshold * HourScale ELSE 0

\* C15: an approved timesheet is neither changed nor deleted by any step.
C15_ApprovedImmutable ==
    [][\A r \in timesheets : r.status = "approved" => r \in timesheets']_vars

\* the timesheet that an approve call names, as a set of rows
Named(call) == {r \in timesheets : r.id = call.timesheet_id}

\* C16: a timesheet is inserted with status pending; an approve call of an
\* admin that finds the timesheet pending goes on to its commit, and the
\* commit sets the status of the timesheet, if it still exists, to approved;
\* an approve call of an admin that finds the timesheet in another status
\* returns the error 400 and changes no timesheet.
C16_ApprovePendingOnly ==
    [][/\ \A r \in timesheets' :
            TimesheetById(r.id) = {} => r.status = "pending"
       /\ \A t \in TimesheetCallIds :
            LET old == ts_calls[t]
                new == ts_calls'[t]
            IN  /\ (old.pc = "idle" /\ new.op = "approve" /\ new.role = "admin"
                    /\ Named(new) # {})
                      => IF \A r \in Named(new) : r.status = "pending"
                         THEN new.pc = "commit" /\ timesheets' = timesheets
                         ELSE /\ new.pc = "done"
                              /\ new.result = "400"
                              /\ timesheets' = timesheets
                /\ (old.pc = "commit" /\ old.op = "approve" /\ new.pc = "done"
                    /\ Named(old) # {})
                      => /\ new.result = "200"
                         /\ \A r \in timesheets' :
                               r.id = old.timesheet_id => r.status = "approved"
                         /\ \A r \in Named(old) :
                               [r EXCEPT !.status = "approved"] \in timesheets']_vars

\* C16 witness: an admin has approved a pending timesheet, and a second
\* approve call of an admin on the same timesheet got the error 400; the
\* timesheet is approved.
C16_Witness ==
    \E t, u \in TimesheetCallIds :
        /\ ts_calls[t].op = "approve" /\ ts_calls[t].result = "200"
        /\ ts_calls[u].op = "approve" /\ ts_calls[u].result = "400"
        /\ ts_calls[u].role = "admin"
        /\ ts_calls[u].timesheet_id = ts_calls[t].timesheet_id
        /\ \E r \in timesheets : r.id = ts_calls[t].timesheet_id /\ r.status = "approved"

\* an hourly employee without positive hourly_rate, or a salaried employee
\* without positive base_salary
MissingCompensation(employee) ==
    IF employee.salary_type = "hourly"
    THEN employee.hourly_rate = None \/ employee.hourly_rate <= 0
    ELSE employee.base_salary <= 0

\* C17: the step that processes an employee with missing compensation
\* creates no payslip and fails that employee only: the call goes on with
\* the next employee or finishes, without exception.
C17_MissingCompensationIsolated ==
    [][\A p \in CallIds :
          (/\ calls[p].pc = "payslip"
           /\ calls'[p] # calls[p]
           /\ MissingCompensation(employees[calls[p].employees[calls[p].index]]))
              => /\ payslips' = payslips
                 /\ calls'[p].pc \in {"payslip", "finish"}
                 /\ calls'[p].error = "none"]_vars

\* C18: no organization ever has two active tax configurations.
C18_OneActiveTaxConfig ==
    \A org \in Orgs : Cardinality(ActiveTaxConfigurations(org)) <= 1

\* the columns of a payslip that the follow-up of its creation writes
FollowUpFields == {"pdf_url", "payment_status", "payment_method"}

\* C20: no step removes a payslip or changes any of its columns other than
\* those of the follow-up (PDF reference, payment status and method):
\* the hours, pays, deductions and net_pay of a payslip stay as created.
C20_PayslipsFrozen ==
    [][\A i \in 1 .. Len(payslips) :
          /\ i <= Len(payslips')
          /\ \A field \in DOMAIN payslips[i] \ FollowUpFields :
                payslips'[i][field] = payslips[i][field]]_vars

\* C20 witness: a payslip with a positive net_pay has its PDF and its failed
\* payment recorded, and the organization has since got a second tax
\* configuration with another federal_tax_rate.
C20_Witness ==
    /\ \E i \in 1 .. Len(payslips) :
          /\ payslips[i].net_pay > 0
          /\ payslips[i].pdf_url # None
          /\ payslips[i].payment_status = FAILED
    /\ Len(tax_configurations) = 2
    /\ tax_configurations[2].federal_tax_rate # tax_configurations[1].federal_tax_rate

\* C21: the outcome of an employee does not depend on the other employees of
\* the run or on its place in the loop: once a call that found the tax
\* configuration has returned, every employee it loaded whose own data
\* computes has a payslip of the run, whichever employees came before it.
C21_OrderIndependent ==
    \A p \in CallIds :
        (calls[p].pc = "done" /\ calls[p].tax_config # <<>>)
            => \A k \in 1 .. Len(calls[p].employees) :
                  LET e == calls[p].employees[k]
                  IN  ~RaisesTypeError(employees[e])
                         => PayslipsOf(calls[p].payroll_run_id, e) # {}

\* C22: a delete_employee call of an admin for an existing employee keeps the
\* row and leaves it with is_active false; and a payslip is only created for
\* an employee that is active, and a completed run counts no other payslips
\* than those of the employees its call loaded as active.
C22_SoftDeleteExcluded ==
    [][/\ \A d \in EmployeeCallIds :
            (emp_calls[d].pc = "idle" /\ emp_calls'[d].pc = "done")
               => /\ DOMAIN employees' = DOMAIN employees
                  /\ emp_calls'[d].result = "200"
                  /\ ~employees'[emp_calls'[d].employee_id].is_active
       /\ \A i \in 1 .. Len(payslips') :
            i > Len(payslips) => employees[payslips'[i].employee_id].is_active]_vars

\* where a call stands before one of its reads of the employees, the tax
\* configuration or the timesheets of an employee
ReadingPcs == {"load_employees", "load_tax", "payslip"}

\* C23: status = processing is committed before the per-employee work: a run
\* that has a payslip is not pending, and no call stands before a read of
\* the employees, the tax configuration or the timesheets of a run whose
\* stored status is pending.
C23_ProcessingCommittedFirst ==
    /\ \A id \in 1 .. Len(payroll_runs) :
          PayslipsOfRun(id) # {} => payroll_runs[id].status # PENDING
    /\ \A p \in CallIds :
          calls[p].pc \in ReadingPcs
              => payroll_runs[calls[p].payroll_run_id].status # PENDING

\* C23 witness: a call stands before the timesheet read of its second
\* employee; the run has the payslip of the first and is processing.
C23_Witness ==
    \E p \in CallIds :
        /\ calls[p].pc = "payslip"
        /\ calls[p].index = 2
        /\ PayslipsOfRun(calls[p].payroll_run_id) # {}
        /\ payroll_runs[calls[p].payroll_run_id].status = PROCESSING

\* the timesheets of an employee that count for a run: approved, and not
\* starting before or ending after the pay period
Eligible(employee_id, payroll_run) ==
    {t \in timesheets :
        /\ t.employee_id = employee_id
        /\ t.status = "approved"
        /\ ~(t.week_start_date < payroll_run.pay_period_start)
        /\ ~(t.week_end_date > payroll_run.pay_period_end)}

\* C24: the step that processes an employee whose compensation computes
\* creates the employee's payslip, with regular_hours the sum of total_hours
\* - overtime_hours and overtime_hours the sum of overtime_hours over the
\* eligible timesheets of the employee, and with zero hours when there is
\* none.
C24_HoursFromEligibleTimesheets ==
    [][\A p \in CallIds :
          LET e == calls[p].employees[calls[p].index]
              eligible == Eligible(e, payroll_runs[calls[p].payroll_run_id])
              new == payslips'[Len(payslips')]
          IN  (/\ calls[p].pc = "payslip"
               /\ calls'[p] # calls[p]
               /\ ~RaisesTypeError(employees[e]))
                  => /\ Len(payslips') = Len(payslips) + 1
                     /\ new.employee_id = e
                     /\ new.payroll_run_id = calls[p].payroll_run_id
                     /\ new.regular_hours = SumHours(eligible, "total_hours")
                                            - SumHours(eligible, "overtime_hours")
                     /\ new.overtime_hours = SumHours(eligible, "overtime_hours")
                     /\ eligible = {} => new.regular_hours = 0 /\ new.overtime_hours = 0]_vars

\* C24 witness: the run has a payslip with zero hours of an employee who has
\* a pending timesheet inside the pay period, and a payslip with 40 regular
\* and 2 overtime hours of an employee who has an approved timesheet that
\* ends after the pay period.
C24_Witness ==
    /\ \E i \in 1 .. Len(payslips) :
          /\ payslips[i].regular_hours = 0 /\ payslips[i].overtime_hours = 0
          /\ \E t \in timesheets :
                /\ t.employee_id = payslips[i].employee_id
                /\ t.status = "pending"
                /\ t.week_start_date >= payroll_runs[1].pay_period_start
                /\ t.week_end_date <= payroll_runs[1].pay_period_end
    /\ \E j \in 1 .. Len(payslips) :
          /\ payslips[j].regular_hours = 40 * HourScale
          /\ payslips[j].overtime_hours = 2 * HourScale
          /\ \E t \in timesheets :
                /\ t.employee_id = payslips[j].employee_id
                /\ t.status = "approved"
                /\ t.week_end_date > payroll_runs[1].pay_period_end

\* the amount of whole cents is the fraction num / den of a cent to the
\* nearest cent
IsNearestCentOf(cents, num, den) == Abs(2 * (cents * den - num)) <= den

\* C25: on every payslip, for an hourly employee regular_pay is
\* regular_hours * hourly_rate and overtime_pay is overtime_hours *
\* hourly_rate * 1.5; for a salaried employee regular_pay is base_salary *
\* days_in_period / 365 with days_in_period = period end - period start + 1
\* and overtime_pay is 0; gross_pay is the sum of the two amounts; each as
\* stored, to the cent.
C25_GrossPayReference ==
    \A i \in 1 .. Len(payslips) :
        LET payslip == payslips[i]
            employee == employees[payslip.employee_id]
            payroll_run == payroll_runs[payslip.payroll_run_id]
            days_in_period == payroll_run.pay_period_end - payroll_run.pay_period_start + 1
            regular == payslip.regular_hours * employee.hourly_rate
            overtime == payslip.overtime_hours * employee.hourly_rate * 3
        IN  IF employee.salary_type = "hourly"
            THEN /\ IsNearestCentOf(payslip.regular_pay, regular, HourScale)
                 /\ IsNearestCentOf(payslip.overtime_pay, overtime, 2 * HourScale)
                 /\ IsNearestCentOf(payslip.gross_pay, 2 * regular + overtime, 2 * HourScale)
            ELSE /\ IsNearestCentOf(payslip.regular_pay,
                                    employee.base_salary * days_in_period, DaysPerYear)
                 /\ payslip.overtime_pay = 0
                 /\ payslip.gross_pay = payslip.regular_pay

\* C25 witness: the run has a payslip of an hourly employee with 50 regular
\* and 2 overtime hours at 0.03, paid 1.50 + 0.09 = 1.59, and a payslip of a
\* salaried employee with overtime hours on approved timesheets, paid 14
\* days of a base salary of 36.50 and no overtime.
C25_Witness ==
    /\ \E i \in 1 .. Len(payslips) :
          /\ employees[payslips[i].employee_id].salary_type = "hourly"
          /\ payslips[i].regular_hours = 50 * HourScale
          /\ payslips[i].regular_pay = 150
          /\ payslips[i].overtime_pay = 9
          /\ payslips[i].gross_pay = 159
    /\ \E j \in 1 .. Len(payslips) :
          /\ employees[payslips[j].employee_id].salary_type = "fixed"
          /\ payslips[j].overtime_hours > 0
          /\ payslips[j].overtime_pay = 0
          /\ payslips[j].regular_pay = 140
          /\ payslips[j].gross_pay = 140

\* an exact amount rounded to whole cents, a tie going to the upper cent
RoundHalfUp(a) == IF 2 * a[2] >= TaxScale THEN a[1] + 1 ELSE a[1]

\* C26: each of the four taxes that calculate_taxes returns is the exact
\* product rounded to the cent with round-half-up: a product exactly halfway
\* between two cents, as 0.50 * 0.05 = 0.025, gives the upper cent, 0.03.
C26_RoundHalfUp ==
    taxes.result # <<>> =>
        LET reference == ReferenceTaxes(taxes.gross_pay, taxes.tax_config)
        IN  \A field \in {"federal_tax", "state_tax", "social_security", "medicare"} :
                taxes.result[field] = RoundHalfUp(reference[field])

\* C27: in every result of calculate_taxes, total_deductions is the sum of
\* the four taxes as returned, and net_pay is gross_pay minus
\* total_deductions as returned, to the cent.
C27_TotalsOfRoundedItems ==
    taxes.result # <<>> =>
        /\ taxes.result.total_deductions =
              taxes.result.federal_tax + taxes.result.state_tax
              + taxes.result.social_security + taxes.result.medicare
        /\ GrossMoney(taxes.gross_pay)[2] = 0
              => taxes.result.net_pay =
                    GrossMoney(taxes.gross_pay)[1] - taxes.result.total_deductions

\* C28: send_payment_via_plaid is invoked at most once for a run and an
\* employee: when a call invokes it for the payslip it has just committed,
\* no payslip of the same run and employee has a payment result recorded.
C28_PaidAtMostOnce ==
    [][\A p \in CallIds :
          (calls[p].pc = "payment" /\ calls'[p] # calls[p])
              => \A i \in PayslipsOf(calls[p].payroll_run_id,
                                     calls[p].employees[calls[p].index]) :
                    payslips[i].payment_status = PENDING]_vars

\* the call is the only one that has loaded its run
OnlyCallOfRun(p) ==
    \A q \in CallIds : q # p => calls[q].payroll_run_id # calls[p].payroll_run_id

\* C29: a committed payslip stays in the table with its run, employee and
\* amounts through every later step; and when the only call of a run returns
\* an error after it had found the tax configuration (an employee's
\* processing or the commit of the totals raised), the run is failed and its
\* totals are still zero.
C29_CommittedPayslipsRemain ==
    [][/\ \A i \in 1 .. Len(payslips) :
            /\ i <= Len(payslips')
            /\ payslips'[i].payroll_run_id = payslips[i].payroll_run_id
            /\ payslips'[i].employee_id = payslips[i].employee_id
            /\ payslips'[i].gross_pay = payslips[i].gross_pay
       /\ \A p \in CallIds :
            (/\ calls[p].pc # "done"
             /\ calls'[p].pc = "done"
             /\ calls'[p].error # "none"
             /\ calls[p].tax_config # <<>>
             /\ OnlyCallOfRun(p))
                => LET payroll_run == payroll_runs'[calls[p].payroll_run_id]
                   IN  /\ payroll_run.status = FAILED
                       /\ payroll_run.total_gross_pay = 0
                       /\ payroll_run.total_net_pay = 0
                       /\ payroll_run.total_taxes = 0]_vars

\* C30: a call that stands before the PDF generation or the payment of an
\* employee has committed the payslip of that employee and run; a call
\* stands before the payment only for an employee with a bank_account_id;
\* and the payslip of an employee without one has payment_status pending,
\* also when the run is completed.
C30_HandOffsAfterCommit ==
    /\ \A p \in CallIds :
          calls[p].pc \in {"pdf", "payment"}
              => /\ calls[p].payslip \in 1 .. Len(payslips)
                 /\ payslips[calls[p].payslip].employee_id = calls[p].employees[calls[p].index]
                 /\ payslips[calls[p].payslip].payroll_run_id = calls[p].payroll_run_id
    /\ \A p \in CallIds :
          calls[p].pc = "payment"
              => employees[calls[p].employees[calls[p].index]].bank_account_id # None
    /\ \A i \in 1 .. Len(payslips) :
          employees[payslips[i].employee_id].bank_account_id = None
              => payslips[i].payment_status = PENDING

\* C30 witness: a run is completed; it has the payslip of an employee
\* without bank_account_id, with its PDF and payment_status pending, and the
\* payslip of an employee with one, with the result of the payment.
C30_Witness ==
    \E id \in 1 .. Len(payroll_runs) :
        /\ payroll_runs[id].status = COMPLETED
        /\ \E i \in PayslipsOfRun(id) :
              /\ employees[payslips[i].employee_id].bank_account_id = None
              /\ payslips[i].pdf_url # None
              /\ payslips[i].payment_status = PENDING
        /\ \E j \in PayslipsOfRun(id) :
              /\ employees[payslips[j].employee_id].bank_account_id # None
              /\ payslips[j].payment_status = FAILED

====
